---- MODULE Spec2Model ----
(***************************************************************************)
(* `yarn version check` (plugin-version, commands/version/check.tsx).      *)
(*                                                                         *)
(* The module models the three parts of the command:                       *)
(*   - fetchWorkspacesStatus: the classification of the impacted           *)
(*     workspaces into decided / undecided / declined,                     *)
(*   - fetchUndecidedDependentWorkspaces: the single-hop propagation to    *)
(*     the dependents of the workspaces that will be released,             *)
(*   - executeStandard / executeInteractive: the report mode and the       *)
(*     keyboard-driven session with its apply step.                        *)
(***************************************************************************)
EXTENDS Integers, Sequences, FiniteSets, TLC

VARIABLES
  project,      \* the Project snapshot: workspaces, manifests, baseline manifests, dependency tables
  args,         \* the arguments of the function under scrutiny (pure-function specifications)
  result,       \* the value the function returned (pure-function specifications)
  interactive,  \* the -i,--interactive flag of the command
  pc,           \* the position of the command
  workspaces,   \* executeInteractive / executeStandard: the impacted workspaces (line 61, 316)
  status,       \* the Status returned by fetchWorkspacesStatus (line 65, 330)
  decisions,    \* App: the Decisions map, in its insertion order (line 140)
  activeKey,    \* App: the key of the row that has the cursor (line 215)
  listing,      \* App: what applyDecisions gave the last render (lines 206-210)
  returnedValue,\* renderForm: the value captured by the `return` key (line 258)
  applyIndex,   \* executeInteractive: the entry of the returned map the loop of line 289 is at
  applied,      \* the `version <decision> --deferred` runs, in the order they were made (line 291)
  errorCount,   \* executeStandard: the number of reportError calls on the StreamReport
  exitCode      \* the value `execute` resolved to

vars == <<project, args, result, interactive, pc, workspaces, status, decisions,
          activeKey, listing, returnedValue, applyIndex, applied, errorCount, exitCode>>

-----------------------------------------------------------------------------
(* JavaScript values, as far as the manifest fields read by the command go. *)

JsUndefined == [t |-> "undefined", s |-> "", n |-> 0]
JsNull == [t |-> "null", s |-> "", n |-> 0]
JsTrue == [t |-> "boolean", s |-> "", n |-> 1]
JsString(x) == [t |-> "string", s |-> x, n |-> 0]
JsNumber(k) == [t |-> "number", s |-> "", n |-> k]
\* an object, known by its reference
JsObject(ref) == [t |-> "object", s |-> ref, n |-> 0]

\* no value yet: the command has not resolved
Pending == [t |-> "pending", s |-> "", n |-> 0]

\* typeof x
TypeOf(x) == x.t

\* x === y : same type and same value; an object equals only itself
StrictEquals(x, y) == x.t = y.t /\ x.s = y.s /\ x.n = y.n

Digits == <<"0", "1", "2", "3", "4", "5", "6", "7", "8", "9">>

RECURSIVE NatToString(_)
NatToString(k) ==
  IF k < 10 THEN Digits[k + 1]
  ELSE NatToString(k \div 10) \o Digits[(k % 10) + 1]

\* String(x) for a string or a non-negative integer
ToJsString(x) == IF x.t = "string" THEN x.s ELSE NatToString(x.n)

-----------------------------------------------------------------------------
(* Manifests.                                                              *)
(*   version      the parsed version field, NoVersion for null             *)
(*   private      the private flag                                         *)
(*   nextVersion  raw.nextVersion: present or not, with its semver and     *)
(*                nonce fields as JavaScript values                        *)

NoVersion == "<null>"

NoNextVersion == [present |-> FALSE, semver |-> JsUndefined, nonce |-> JsUndefined]
NextVersion(semver, nonce) == [present |-> TRUE, semver |-> semver, nonce |-> nonce]

\* manifest.raw.version
RawVersion(manifest) ==
  IF manifest.version = NoVersion THEN JsUndefined ELSE JsString(manifest.version)

\* manifest.raw.nextVersion
RawNextVersion(manifest) ==
  IF manifest.nextVersion.present THEN JsObject("nextVersion") ELSE JsUndefined

\* getNonce without the String() of line 519
getNonceUnconverted(manifest) ==
  IF /\ manifest.nextVersion.present
     /\ \/ TypeOf(manifest.nextVersion.nonce) = "string"
        \/ TypeOf(manifest.nextVersion.nonce) = "number"
  THEN manifest.nextVersion.nonce
  ELSE JsNull

\* getNonce, lines 517-523
getNonce(manifest) ==
  IF /\ manifest.nextVersion.present
     /\ \/ TypeOf(manifest.nextVersion.nonce) = "string"
        \/ TypeOf(manifest.nextVersion.nonce) = "number"
  THEN JsString(ToJsString(manifest.nextVersion.nonce))
  ELSE JsNull

\* willBeReleased, lines 525-531: the third conjunct compares the nextVersion
\* object itself with the version string
willBeReleased(manifest) ==
  /\ manifest.nextVersion.present
  /\ TypeOf(manifest.nextVersion.semver) = "string"
  /\ ~StrictEquals(RawNextVersion(manifest), RawVersion(manifest))

\* fetchPreviousNonce, lines 507-515: `git show base:package.json` fails when
\* the manifest did not exist at the baseline
fetchPreviousNonce(workspace) ==
  IF project.baseline[workspace].exists
  THEN getNonce(project.baseline[workspace].manifest)
  ELSE JsNull

EmptyStatus == [decided |-> <<>>, undecided |-> <<>>, declined |-> <<>>]

\* one iteration of the loop of fetchWorkspacesStatus, lines 371-389
ClassifyOne(acc, workspace) ==
  LET manifest == project.manifest[workspace]
      currentNonce == getNonce(manifest)
      previousNonce == fetchPreviousNonce(workspace)
  IN  IF manifest.version = NoVersion THEN acc
      ELSE IF StrictEquals(currentNonce, previousNonce)
        THEN [acc EXCEPT !.undecided = Append(@, workspace)]
      ELSE IF willBeReleased(manifest)
        THEN [acc EXCEPT !.decided = Append(@, workspace)]
      ELSE [acc EXCEPT !.declined = Append(@, workspace)]

RECURSIVE ClassifyFrom(_, _, _)
ClassifyFrom(acc, list, i) ==
  IF i > Len(list) THEN acc
  ELSE ClassifyFrom(ClassifyOne(acc, list[i]), list, i + 1)

\* fetchWorkspacesStatus, lines 365-392
fetchWorkspacesStatus(list) == ClassifyFrom(EmptyStatus, list, 1)

-----------------------------------------------------------------------------
(* JavaScript Maps: a sequence of <<key, value>> entries with distinct     *)
(* keys, in insertion order.                                               *)

MapHas(map, key) == \E i \in 1..Len(map) : map[i][1] = key

MapGet(map, key) == map[CHOOSE i \in 1..Len(map) : map[i][1] = key][2]

\* A variant of Map.prototype.set that puts a new key before the others.
MapSetFirst(map, key, value) ==
  IF MapHas(map, key)
  THEN [i \in 1..Len(map) |-> IF map[i][1] = key THEN <<key, value>> ELSE map[i]]
  ELSE <<<<key, value>>>> \o map

\* Map.prototype.set: an existing key keeps its place, a new key goes last
MapSet(map, key, value) ==
  IF MapHas(map, key)
  THEN [i \in 1..Len(map) |-> IF map[i][1] = key THEN <<key, value>> ELSE map[i]]
  ELSE Append(map, <<key, value>>)

\* Map.prototype.delete
MapDelete(map, key) == SelectSeq(map, LAMBDA e : e[1] # key)

RECURSIVE MapFromEntries(_, _, _)
MapFromEntries(map, entries, i) ==
  IF i > Len(entries) THEN map
  ELSE MapFromEntries(MapSet(map, entries[i][1], entries[i][2]), entries, i + 1)

\* new Map(entries)
NewMap(entries) == MapFromEntries(<<>>, entries, 1)

\* [...map.keys()]
MapKeys(map) == [i \in 1..Len(map) |-> map[i][1]]

\* array.includes(x)
Includes(array, x) == \E i \in 1..Len(array) : array[i] = x

\* array.indexOf(x): the first index, counted from 1 here, and 0 for JavaScript's -1
IndexOf(array, x) ==
  IF Includes(array, x)
  THEN CHOOSE i \in 1..Len(array) : array[i] = x /\ \A j \in 1..(i - 1) : array[j] # x
  ELSE 0

-----------------------------------------------------------------------------
(* The dependency tables of the project.                                   *)

\* workspace.anchoredLocator.locatorHash: one hash for each workspace
LocatorHash(workspace) ==
  CASE workspace = "A" -> "workspace:A"
    [] workspace = "B" -> "workspace:B"
    [] workspace = "C" -> "workspace:C"

\* undefined, where a string is expected
Undefined == "<undefined>"

\* what Map.prototype.get answers for a key the table does not hold
Unregistered == Undefined

NoError == "none"
ResolutionError == "Assertion failed: The resolution should have been registered"
PackageError == "Assertion failed: The package should have been registered"

(* The projects the specifications range over. *)

Workspaces == {"A", "B", "C"}

\* project.workspaces, in declaration order
WorkspaceOrder == <<"A", "B", "C">>

\* the largest number of dependency edges of a project
MaxEdges == 2

\* the elements of a set of workspaces, in declaration order
InOrder(set) == SelectSeq(WorkspaceOrder, LAMBDA w : w \in set)

\* a package that is not a workspace
ExternalPackage == "lodash"

DependencyTargets == Workspaces \cup {ExternalPackage}

TargetOrder == <<"A", "B", "C", "lodash">>

\* descriptor.descriptorHash of the dependency on a target
DescriptorHash(target) ==
  CASE target = "A" -> "descriptor:A"
    [] target = "B" -> "descriptor:B"
    [] target = "C" -> "descriptor:C"
    [] target = ExternalPackage -> "descriptor:lodash"

\* the state of the resolution tables: complete, or the external package
\* lacks its resolution, or it lacks its package
TableStates == {"complete", "unresolved", "unpackaged"}

\* project.storedResolutions.get(descriptorHash): a locator hash, or undefined
StoredResolution(tables, descriptorHash) ==
  CASE descriptorHash = "descriptor:A" -> LocatorHash("A")
    [] descriptorHash = "descriptor:B" -> LocatorHash("B")
    [] descriptorHash = "descriptor:C" -> LocatorHash("C")
    [] OTHER -> IF tables = "unresolved" THEN Unregistered ELSE "npm:lodash"

\* project.storedPackages.get(locatorHash) is not undefined
HasStoredPackage(tables, locatorHash) ==
  IF locatorHash = "npm:lodash" THEN tables = "complete" ELSE TRUE

Edges == {e \in Workspaces \X DependencyTargets : e[1] # e[2]}

EdgeSets == {es \in SUBSET Edges : Cardinality(es) <= MaxEdges}

\* the dependency graphs: a set of edges and the state of the tables, which
\* matters when an edge names the external package
Graphs ==
  {g \in [edges : EdgeSets, tables : TableStates] :
     g.tables # "complete" => \E w \in Workspaces : <<w, ExternalPackage>> \in g.edges}

\* workspace.dependencies.values() for a set of edges
DependenciesOf(es, w) ==
  LET targets == SelectSeq(TargetOrder, LAMBDA t : <<w, t>> \in es)
  IN  [i \in 1..Len(targets) |-> DescriptorHash(targets[i])]

PrereleaseVersion == "1.0.0-rc.1"

Versions == {NoVersion, "1.0.0", PrereleaseVersion}

PlainManifest == [version |-> "1.0.0", private |-> FALSE, nextVersion |-> NoNextVersion]

NoBaseline == [exists |-> FALSE, manifest |-> PlainManifest]

\* the Project: its workspaces are WorkspaceOrder, `tables` is the state of
\* storedResolutions and storedPackages, and `changed` lists the workspaces
\* that own the changed files, as lines 61 and 316 compute them
MakeProject(manifest, baseline, graph, changed) ==
  [manifest |-> manifest,
   baseline |-> baseline,
   dependencies |-> [w \in Workspaces |-> DependenciesOf(graph.edges, w)],
   tables |-> graph.tables,
   changed |-> changed]

\* the version and private fields of the manifests: at most one workspace is
\* not a public workspace with a release version
Shapes ==
  {[w \in Workspaces |-> PlainManifest]} \cup
  {[w \in Workspaces |-> IF w = x THEN [PlainManifest EXCEPT !.version = v, !.private = p]
                          ELSE PlainManifest] :
     x \in Workspaces, v \in Versions, p \in BOOLEAN}

-----------------------------------------------------------------------------
(* fetchUndecidedDependentWorkspaces. *)

\* lines 397-403: the lookup from locator hash to workspace
LocatorMap(list) ==
  NewMap([i \in 1..Len(list) |-> <<LocatorHash(list[i]), list[i]>>])

\* A variant of ScanDependencies that goes on to the next dependency where
\* lines 427-428 and 431-432 throw.
RECURSIVE ScanDependenciesSkipping(_, _, _, _)
ScanDependenciesSkipping(workspace, bumpedWorkspaces, i, undecided) ==
  LET dependencies == project.dependencies[workspace]
  IN  IF i > Len(dependencies) THEN [error |-> NoError, pairs |-> undecided]
      ELSE LET resolution == StoredResolution(project.tables, dependencies[i])
           IN  IF resolution = Unregistered
                 THEN ScanDependenciesSkipping(workspace, bumpedWorkspaces, i + 1, undecided)
               ELSE IF ~HasStoredPackage(project.tables, resolution)
                 THEN ScanDependenciesSkipping(workspace, bumpedWorkspaces, i + 1, undecided)
               ELSE IF ~MapHas(bumpedWorkspaces, resolution)
                 THEN ScanDependenciesSkipping(workspace, bumpedWorkspaces, i + 1, undecided)
               ELSE ScanDependenciesSkipping(workspace, bumpedWorkspaces, i + 1,
                      Append(undecided, <<workspace, MapGet(bumpedWorkspaces, resolution)>>))

\* lines 425-446: the dependencies of one workspace, from the i-th on
RECURSIVE ScanDependencies(_, _, _, _)
ScanDependencies(workspace, bumpedWorkspaces, i, undecided) ==
  LET dependencies == project.dependencies[workspace]
  IN  IF i > Len(dependencies) THEN [error |-> NoError, pairs |-> undecided]
      ELSE LET resolution == StoredResolution(project.tables, dependencies[i])
           IN  IF resolution = Unregistered
                 THEN [error |-> ResolutionError, pairs |-> <<>>]
               ELSE IF ~HasStoredPackage(project.tables, resolution)
                 THEN [error |-> PackageError, pairs |-> <<>>]
               ELSE IF ~MapHas(bumpedWorkspaces, resolution)
                 THEN ScanDependencies(workspace, bumpedWorkspaces, i + 1, undecided)
               ELSE ScanDependencies(workspace, bumpedWorkspaces, i + 1,
                      Append(undecided, <<workspace, MapGet(bumpedWorkspaces, resolution)>>))

\* A variant of SkipsWorkspace with the `include` test of line 408 inverted:
\* the members of `include` are the ones skipped when decided or declined.
SkipsWorkspaceWhenIncluded(workspace, bumpedWorkspaces, declinedWorkspaces, include) ==
  \/ /\ workspace \in include
     /\ \/ MapHas(declinedWorkspaces, LocatorHash(workspace))
        \/ MapHas(bumpedWorkspaces, LocatorHash(workspace))
  \/ project.manifest[workspace].private
  \/ project.manifest[workspace].version = NoVersion

\* A variant of SkipsWorkspace in which the tests of lines 415-423 apply only
\* to the workspaces outside `include`.
SkipsWorkspaceUnlessIncluded(workspace, bumpedWorkspaces, declinedWorkspaces, include) ==
  /\ workspace \notin include
  /\ \/ MapHas(declinedWorkspaces, LocatorHash(workspace))
     \/ MapHas(bumpedWorkspaces, LocatorHash(workspace))
     \/ project.manifest[workspace].private
     \/ project.manifest[workspace].version = NoVersion

\* A variant of SkipsWorkspace without the tests of lines 408-415: the
\* decided and the declined workspaces are examined like the others.
SkipsWorkspaceNeverForStatus(workspace, bumpedWorkspaces, declinedWorkspaces, include) ==
  \/ project.manifest[workspace].private
  \/ project.manifest[workspace].version = NoVersion

\* lines 408-423: the workspaces whose dependencies are not examined
SkipsWorkspace(workspace, bumpedWorkspaces, declinedWorkspaces, include) ==
  \/ /\ workspace \notin include
     /\ \/ MapHas(declinedWorkspaces, LocatorHash(workspace))
        \/ MapHas(bumpedWorkspaces, LocatorHash(workspace))
  \/ project.manifest[workspace].private
  \/ project.manifest[workspace].version = NoVersion

\* A variant of ScanWorkspaces that follows the graph further: a workspace
\* for which a pair was pushed counts as bumped for the workspaces after it.
RECURSIVE ScanWorkspacesTransitive(_, _, _, _, _)
ScanWorkspacesTransitive(bumpedWorkspaces, declinedWorkspaces, include, i, undecided) ==
  IF i > Len(WorkspaceOrder) THEN [error |-> NoError, pairs |-> undecided]
  ELSE LET workspace == WorkspaceOrder[i]
       IN  IF SkipsWorkspace(workspace, bumpedWorkspaces, declinedWorkspaces, include)
           THEN ScanWorkspacesTransitive(bumpedWorkspaces, declinedWorkspaces, include,
                                         i + 1, undecided)
           ELSE LET scanned == ScanDependencies(workspace, bumpedWorkspaces, 1, undecided)
                IN  IF scanned.error # NoError THEN scanned
                    ELSE ScanWorkspacesTransitive(
                           IF Len(scanned.pairs) > Len(undecided)
                           THEN MapSet(bumpedWorkspaces, LocatorHash(workspace), workspace)
                           ELSE bumpedWorkspaces,
                           declinedWorkspaces, include, i + 1, scanned.pairs)

\* lines 406-447: the workspaces of the project, from the i-th on
RECURSIVE ScanWorkspaces(_, _, _, _, _)
ScanWorkspaces(bumpedWorkspaces, declinedWorkspaces, include, i, undecided) ==
  IF i > Len(WorkspaceOrder) THEN [error |-> NoError, pairs |-> undecided]
  ELSE LET workspace == WorkspaceOrder[i]
       IN  IF SkipsWorkspace(workspace, bumpedWorkspaces, declinedWorkspaces, include)
           THEN ScanWorkspaces(bumpedWorkspaces, declinedWorkspaces, include, i + 1, undecided)
           ELSE LET scanned == ScanDependencies(workspace, bumpedWorkspaces, 1, undecided)
                IN  IF scanned.error # NoError THEN scanned
                    ELSE ScanWorkspaces(bumpedWorkspaces, declinedWorkspaces, include,
                                        i + 1, scanned.pairs)

\* A variant of fetchUndecidedDependentWorkspaces whose bumpedWorkspaces map
\* (line 397) also holds the declined workspaces.
fetchDependentsOfDeclined(decided, declined, include) ==
  ScanWorkspaces(LocatorMap(decided \o declined), LocatorMap(declined), include, 1, <<>>)

\* fetchUndecidedDependentWorkspaces, lines 394-450: the pairs
\* <<dependent, dependency>> in the order they are pushed, or the error thrown
fetchUndecidedDependentWorkspaces(decided, declined, include) ==
  ScanWorkspaces(LocatorMap(decided), LocatorMap(declined), include, 1, <<>>)

-----------------------------------------------------------------------------
(* SpecPropagate: fetchUndecidedDependentWorkspaces on its own.            *)

Idle == "idle"

\* no render yet, or the form is gone
NoListing == [undecidedWorkspaces |-> <<>>, undecidedDependents |-> <<>>, fullListing |-> <<>>]

\* renderForm's returnedValue: undefined until the `return` key sets it
NotReturned == [defined |-> FALSE, value |-> <<>>]

InitPropagate ==
  /\ \E shape \in {sh \in Shapes : \A w \in Workspaces : sh[w].version # PrereleaseVersion},
        graph \in Graphs :
       project = MakeProject(shape, [w \in Workspaces |-> NoBaseline], graph, <<>>)
  /\ \E decided \in SUBSET Workspaces, declined \in SUBSET Workspaces,
        include \in SUBSET Workspaces :
       args = [decided |-> InOrder(decided), declined |-> InOrder(declined),
               include |-> include]
  /\ result = Idle
  /\ interactive = FALSE
  /\ pc = "call"
  /\ workspaces = <<>>
  /\ status = EmptyStatus
  /\ decisions = <<>>
  /\ activeKey = Undefined
  /\ listing = NoListing
  /\ returnedValue = NotReturned
  /\ applyIndex = 1
  /\ applied = <<>>
  /\ errorCount = 0
  /\ exitCode = Pending

Propagate ==
  /\ pc = "call"
  /\ result' = fetchUndecidedDependentWorkspaces(args.decided, args.declined, args.include)
  /\ pc' = "returned"
  /\ UNCHANGED <<project, args, interactive, workspaces, status, decisions, activeKey, listing,
                 returnedValue, applyIndex, applied, errorCount, exitCode>>

NextPropagate == Propagate

SpecPropagate == InitPropagate /\ [][NextPropagate]_vars

-----------------------------------------------------------------------------
(* SpecClassify: fetchWorkspacesStatus on its own.                         *)

\* the nonces a decision record carries are the numbers 1..MaxNonce, written
\* as a number or as a string
MaxNonce == 2

RawNonces ==
  {JsUndefined, JsTrue} \cup
  {JsNumber(k) : k \in 1..MaxNonce} \cup {JsString(NatToString(k)) : k \in 1..MaxNonce}

RawSemvers == {JsUndefined, JsString("1.0.0"), JsString("1.1.0")}

NextVersions ==
  {NoNextVersion} \cup {NextVersion(semver, nonce) : semver \in RawSemvers, nonce \in RawNonces}

\* the working-tree manifests of a workspace
CurrentManifests ==
  {[PlainManifest EXCEPT !.version = v, !.nextVersion = nv] :
     v \in {NoVersion, "1.0.0"}, nv \in NextVersions}

\* the manifests of a workspace at the baseline, as far as the nonce goes
BaselineManifests ==
  {NoBaseline} \cup
  {[exists |-> TRUE, manifest |-> [PlainManifest EXCEPT !.nextVersion = nv]] :
     nv \in {NoNextVersion, NextVersion(JsUndefined, JsUndefined)} \cup
            {NextVersion(JsUndefined, JsString(NatToString(k))) : k \in 1..MaxNonce}}

\* the workspaces handed to fetchWorkspacesStatus at once: the changed files
\* are sorted, so the workspaces that own them come in the order of their paths
ClassifiedLists == {InOrder(c) : c \in {x \in SUBSET Workspaces : Cardinality(x) <= 2}}

InitClassify ==
  /\ \E list \in ClassifiedLists :
       /\ args = [workspaces |-> list]
       /\ \E current \in [1..Len(list) -> CurrentManifests],
             baseline \in [1..Len(list) -> BaselineManifests] :
            project = MakeProject(
              [w \in Workspaces |-> IF Includes(list, w) THEN current[IndexOf(list, w)]
                                    ELSE PlainManifest],
              [w \in Workspaces |-> IF Includes(list, w) THEN baseline[IndexOf(list, w)]
                                    ELSE NoBaseline],
              [edges |-> {}, tables |-> "complete"], list)
  /\ result = Idle
  /\ interactive = FALSE
  /\ pc = "call"
  /\ workspaces = <<>>
  /\ status = EmptyStatus
  /\ decisions = <<>>
  /\ activeKey = Undefined
  /\ listing = NoListing
  /\ returnedValue = NotReturned
  /\ applyIndex = 1
  /\ applied = <<>>
  /\ errorCount = 0
  /\ exitCode = Pending

Classify ==
  /\ pc = "call"
  /\ result' = fetchWorkspacesStatus(args.workspaces)
  /\ pc' = "returned"
  /\ UNCHANGED <<project, args, interactive, workspaces, status, decisions, activeKey, listing,
                 returnedValue, applyIndex, applied, errorCount, exitCode>>

NextClassify == Classify

SpecClassify == InitClassify /\ [][NextClassify]_vars

(* What the claims about the classification speak of. *)

\* the number of times x occurs in an array
Occurrences(array, x) == Cardinality({i \in 1..Len(array) : array[i] = x})

\* the nonce a decision record carries, as the set of its written forms:
\* empty when there is no record or no nonce in it
RecordedNonce(nextVersion) ==
  IF ~nextVersion.present THEN {}
  ELSE IF nextVersion.nonce.t = "string" THEN {nextVersion.nonce.s}
  ELSE IF nextVersion.nonce.t = "number" THEN {NatToString(nextVersion.nonce.n)}
  ELSE {}

CurrentNonceOf(w) == RecordedNonce(project.manifest[w].nextVersion)

BaselineNonceOf(w) ==
  IF project.baseline[w].exists THEN RecordedNonce(project.baseline[w].manifest.nextVersion)
  ELSE {}

\* the decision record carries a target version that differs from the version field
TargetDiffers(w) ==
  LET manifest == project.manifest[w]
  IN  /\ manifest.nextVersion.present
      /\ manifest.nextVersion.semver.t = "string"
      /\ manifest.nextVersion.semver.s # manifest.version

Classified == pc = "returned" /\ "undecided" \in DOMAIN result

\* C1: a versioned workspace whose nonce differs from its baseline nonce is in
\* `decided` only when its decision record carries a target version that
\* differs from the version field, and in `declined` otherwise; a recorded
\* decline (target equal to the version) is in `declined`.
C1_DecidedOnlyWhenTargetDiffers ==
  Classified =>
    \A i \in 1..Len(args.workspaces) :
      LET w == args.workspaces[i]
      IN  (project.manifest[w].version # NoVersion /\ CurrentNonceOf(w) # BaselineNonceOf(w))
            => /\ Includes(result.decided, w) <=> TargetDiffers(w)
               /\ Includes(result.declined, w) <=> ~TargetDiffers(w)

\* C2: the classification is a partition: a listed workspace with a version is
\* in exactly one of the three arrays, a workspace without a version (or not
\* listed) is in none, and a versioned workspace is in `undecided` exactly
\* when its current nonce equals its baseline nonce (both absent counts as
\* equal, no manifest at the baseline counts as absent).
C2_ClassifyPartitions ==
  Classified =>
    \A w \in Workspaces :
      LET total == Occurrences(result.decided, w) + Occurrences(result.undecided, w)
                     + Occurrences(result.declined, w)
          listed == Includes(args.workspaces, w) /\ project.manifest[w].version # NoVersion
      IN  /\ listed => total = 1
          /\ ~listed => total = 0
          /\ listed => (Includes(result.undecided, w) <=> CurrentNonceOf(w) = BaselineNonceOf(w))

\* C2, its case: a workspace without a version is listed next to one whose
\* nonce is a number now and was the same number written as a string, and the
\* second one has been put in `undecided`
C2_Witness ==
  /\ Classified
  /\ \E w, x \in Workspaces :
       /\ Includes(args.workspaces, w) /\ project.manifest[w].version = NoVersion
       /\ Includes(args.workspaces, x) /\ project.manifest[x].version # NoVersion
       /\ project.manifest[x].nextVersion.present
       /\ project.manifest[x].nextVersion.nonce.t = "number"
       /\ project.baseline[x].exists
       /\ project.baseline[x].manifest.nextVersion.nonce.t = "string"
       /\ Includes(result.undecided, x)

-----------------------------------------------------------------------------
(* Properties of fetchUndecidedDependentWorkspaces, under SpecPropagate.   *)

Propagated == pc = "returned" /\ "pairs" \in DOMAIN result

\* the set of the pairs of a call
Emitted(r) == {r.pairs[i] : i \in 1..Len(r.pairs)}

\* the pairs of the call made with another decided list and the same
\* declined list and include set
EmittedFor(decidedSet) ==
  Emitted(fetchUndecidedDependentWorkspaces(InOrder(decidedSet), args.declined, args.include))

Supersets(list) == {more \in SUBSET Workspaces : \A i \in 1..Len(list) : list[i] \in more}

\* C3, as stated: if decided is a subset of decided', every pair emitted for
\* decided is also emitted for decided'.
C3_MonotonicInDecided ==
  Propagated =>
    \A more \in Supersets(args.decided) : Emitted(result) \subseteq EmittedFor(more)

\* C3, amended: if decided is a subset of decided', every pair emitted for
\* decided whose dependent is in the include set or is not in decided' is
\* also emitted for decided'; a dependent that is itself added to decided'
\* and is not in the include set has its pairs dropped.
C3_MonotonicExceptNewlyDecided ==
  Propagated =>
    \A more \in Supersets(args.decided) :
      \A p \in Emitted(result) :
        (p[1] \in args.include \/ p[1] \notin more) => p \in EmittedFor(more)

\* a dependent of a decided workspace is added to decided' and keeps its
\* pair because it is in the include set, while the larger decided' brings a
\* new pair
C3_Witness ==
  /\ Propagated
  /\ \E more \in Supersets(args.decided) :
       /\ \E p \in Emitted(result) :
            p[1] \in more /\ ~Includes(args.decided, p[1]) /\ p[1] \in args.include
                          /\ p \in EmittedFor(more)
       /\ \E q \in EmittedFor(more) : q \notin Emitted(result)

\* C4: no emitted pair has a dependent that is private or has a null
\* version, whatever the decided and declined lists and the include set;
\* the dependency of a pair may be private.
C4_DependentsArePublicAndVersioned ==
  Propagated =>
    \A p \in Emitted(result) :
      /\ ~project.manifest[p[1]].private
      /\ project.manifest[p[1]].version # NoVersion

\* a private workspace of the include set that itself depends on a decided
\* workspace is the dependency of an emitted pair
C4_Witness ==
  /\ Propagated
  /\ \E p \in Emitted(result) :
       /\ project.manifest[p[2]].private
       /\ p[2] \in args.include
       /\ \E i \in 1..Len(project.dependencies[p[2]]) :
            LET resolution == StoredResolution(project.tables, project.dependencies[p[2]][i])
            IN  \E d \in Workspaces : Includes(args.decided, d) /\ LocatorHash(d) = resolution

-----------------------------------------------------------------------------
(* The interactive session: the state the App component keeps and what it  *)
(* derives from it on every render.                                        *)

\* semver.prerelease(version) === null, for the versions of the model
IsRelease(version) == version # PrereleaseVersion

\* Undecided, lines 101-103: the strategies of a row
Strategies(version) ==
  IF IsRelease(version)
  THEN <<"undecided", "decline", "patch", "minor", "major", "prerelease">>
  ELSE <<"undecided", "decline", "prerelease", "major">>

\* a % b of JavaScript, for b > 0: the sign is the sign of a
JsRemainder(a, b) == IF a >= 0 THEN a % b ELSE 0 - ((0 - a) % b)

\* values[index] for a JavaScript index (from 0): undefined outside the array
ElementAt(values, index) ==
  IF index >= 0 /\ index < Len(values) THEN values[index + 1] ELSE Undefined

\* A variant of ListInput whose `minus` case leaves out `values.length +`
\* (line 80): the index before the first one is -1.
ListInputNoWrap(value, values, key, minus, plus) ==
  LET index == IndexOf(values, value) - 1
      length == Len(values)
  IN  IF key = minus
        THEN [called |-> TRUE,
              value |-> IF length = 0 THEN Undefined
                        ELSE ElementAt(values, JsRemainder(index - 1, length))]
      ELSE IF key = plus
        THEN [called |-> TRUE,
              value |-> IF length = 0 THEN Undefined
                        ELSE ElementAt(values, JsRemainder(index + 1, length))]
      ELSE [called |-> FALSE, value |-> value]

\* useListInput, lines 77-87: what the callback hands to `set` for a key, as
\* [called, value]; for an empty array the index is NaN and the value undefined
ListInput(value, values, key, minus, plus) ==
  LET index == IndexOf(values, value) - 1
      length == Len(values)
  IN  IF key = minus
        THEN [called |-> TRUE,
              value |-> IF length = 0 THEN Undefined
                        ELSE ElementAt(values, JsRemainder(length + index - 1, length))]
      ELSE IF key = plus
        THEN [called |-> TRUE,
              value |-> IF length = 0 THEN Undefined
                        ELSE ElementAt(values, JsRemainder(index + 1, length))]
      ELSE [called |-> FALSE, value |-> value]

\* A variant of setDecision without the test of line 145: `undecided` is
\* stored like any other strategy.
setDecisionStoringUndecided(map, workspace, decision) ==
  MapSet(map, workspace, decision)

\* useDecisions, lines 142-151: the copy handed to setDecisions
setDecision(map, workspace, decision) ==
  IF decision # "undecided" THEN MapSet(map, workspace, decision)
  ELSE MapDelete(map, workspace)

\* decisions.get(workspace) || `undecided`, lines 240 and 250
DecisionOf(map, workspace) ==
  IF MapHas(map, workspace) THEN MapGet(map, workspace) ELSE "undecided"

\* A variant of WithDecisions with the test of line 164 inverted: the
\* declines go to the decided list and the bumps to the declined list.
RECURSIVE WithDecisionsInverted(_, _, _, _)
WithDecisionsInverted(list, map, bumped, i) ==
  IF i > Len(map) THEN list
  ELSE LET workspace == map[i][1]
           decision == map[i][2]
       IN  IF decision = "undecided" THEN WithDecisionsInverted(list, map, bumped, i + 1)
           ELSE IF (decision = "decline") = bumped
             THEN WithDecisionsInverted(Append(list, workspace), map, bumped, i + 1)
           ELSE WithDecisionsInverted(list, map, bumped, i + 1)

\* lines 160-169: the workspaces of the map whose decision is a bump (bumped =
\* TRUE) or a decline (bumped = FALSE), in the order of the map
RECURSIVE WithDecisions(_, _, _, _)
WithDecisions(list, map, bumped, i) ==
  IF i > Len(map) THEN list
  ELSE LET workspace == map[i][1]
           decision == map[i][2]
       IN  IF decision = "undecided" THEN WithDecisions(list, map, bumped, i + 1)
           ELSE IF (decision # "decline") = bumped
             THEN WithDecisions(Append(list, workspace), map, bumped, i + 1)
           ELSE WithDecisions(list, map, bumped, i + 1)

\* lines 176-179: the dependents of the pairs, each once, in order
RECURSIVE NoDuplicates(_, _, _)
NoDuplicates(list, pairs, i) ==
  IF i > Len(pairs) THEN list
  ELSE IF Includes(list, pairs[i][1]) THEN NoDuplicates(list, pairs, i + 1)
  ELSE NoDuplicates(Append(list, pairs[i][1]), pairs, i + 1)

\* lines 186 and 189: the keys of the rows
UndecidedWorkspaceKey(workspace) ==
  CASE workspace = "A" -> "undecidedWorkspace:workspace:A"
    [] workspace = "B" -> "undecidedWorkspace:workspace:B"
    [] workspace = "C" -> "undecidedWorkspace:workspace:C"

UndecidedDependentKey(workspace) ==
  CASE workspace = "A" -> "undecidedDependent:workspace:A"
    [] workspace = "B" -> "undecidedDependent:workspace:B"
    [] workspace = "C" -> "undecidedDependent:workspace:C"

\* A variant of applyDecisions that calls fetchUndecidedDependentWorkspaces
\* without the `include` option of line 174.
applyDecisionsWithoutInclude(st, map) ==
  LET decidedWithDecisions == WithDecisions(st.decided, map, TRUE, 1)
      declinedWithDecisions == WithDecisions(st.declined, map, FALSE, 1)
      undecidedDependents ==
        fetchUndecidedDependentWorkspaces(decidedWithDecisions, declinedWithDecisions,
                                          {}).pairs
      undecidedDependentsNoDuplicates == NoDuplicates(<<>>, undecidedDependents, 1)
  IN  [undecidedWorkspaces |-> st.undecided,
       undecidedDependents |-> undecidedDependentsNoDuplicates,
       fullListing |->
         NewMap([i \in 1..Len(st.undecided) |->
                   <<UndecidedWorkspaceKey(st.undecided[i]), st.undecided[i]>>]
                \o [i \in 1..Len(undecidedDependentsNoDuplicates) |->
                   <<UndecidedDependentKey(undecidedDependentsNoDuplicates[i]),
                     undecidedDependentsNoDuplicates[i]>>])]

\* A variant of applyDecisions whose fullListing and sections have the
\* dependents before the undecided workspaces.
applyDecisionsDependentsFirst(st, map) ==
  LET decidedWithDecisions == WithDecisions(st.decided, map, TRUE, 1)
      declinedWithDecisions == WithDecisions(st.declined, map, FALSE, 1)
      undecidedDependents ==
        fetchUndecidedDependentWorkspaces(decidedWithDecisions, declinedWithDecisions,
                                          {map[i][1] : i \in 1..Len(map)}).pairs
      undecidedDependentsNoDuplicates == NoDuplicates(<<>>, undecidedDependents, 1)
  IN  [undecidedWorkspaces |-> st.undecided,
       undecidedDependents |-> undecidedDependentsNoDuplicates,
       fullListing |->
         NewMap([i \in 1..Len(undecidedDependentsNoDuplicates) |->
                   <<UndecidedDependentKey(undecidedDependentsNoDuplicates[i]),
                     undecidedDependentsNoDuplicates[i]>>]
                \o [i \in 1..Len(st.undecided) |->
                   <<UndecidedWorkspaceKey(st.undecided[i]), st.undecided[i]>>])]

\* applyDecisions, lines 156-193
applyDecisions(st, map) ==
  LET decidedWithDecisions == WithDecisions(st.decided, map, TRUE, 1)
      declinedWithDecisions == WithDecisions(st.declined, map, FALSE, 1)
      undecidedDependents ==
        fetchUndecidedDependentWorkspaces(decidedWithDecisions, declinedWithDecisions,
                                          {map[i][1] : i \in 1..Len(map)}).pairs
      undecidedDependentsNoDuplicates == NoDuplicates(<<>>, undecidedDependents, 1)
  IN  [undecidedWorkspaces |-> st.undecided,
       undecidedDependents |-> undecidedDependentsNoDuplicates,
       fullListing |->
         NewMap([i \in 1..Len(st.undecided) |->
                   <<UndecidedWorkspaceKey(st.undecided[i]), st.undecided[i]>>]
                \o [i \in 1..Len(undecidedDependentsNoDuplicates) |->
                   <<UndecidedDependentKey(undecidedDependentsNoDuplicates[i]),
                     undecidedDependentsNoDuplicates[i]>>])]

\* App, line 216: fullListing.get(activeKey)
ActiveWorkspace(rendered, key) ==
  IF MapHas(rendered.fullListing, key) THEN MapGet(rendered.fullListing, key) ELSE Undefined

\* App, lines 239-251: the Undecided rows of a render, top to bottom, each with
\* its `active` property
RenderedRows(rendered, key) ==
  LET list == rendered.undecidedWorkspaces \o rendered.undecidedDependents
      activeWorkspace == ActiveWorkspace(rendered, key)
  IN  [i \in 1..Len(list) |-> [workspace |-> list[i], active |-> list[i] = activeWorkspace]]

\* the keypress listeners of the rows, lines 70-94 and 105-110: every active
\* row computes its copy from the decisions of the render and hands it to
\* setDecisions; the last call stands
RECURSIVE CycleRows(_, _, _, _, _)
CycleRows(rows, map, key, i, current) ==
  IF i > Len(rows) THEN current
  ELSE LET workspace == rows[i].workspace
           input == ListInput(DecisionOf(map, workspace),
                              Strategies(project.manifest[workspace].version),
                              key, "left", "right")
       IN  IF rows[i].active /\ input.called
           THEN CycleRows(rows, map, key, i + 1, setDecision(map, workspace, input.value))
           ELSE CycleRows(rows, map, key, i + 1, current)

\* A variant of MoveCursor whose listener keeps the keys of the first render
\* (an effect that is not renewed when `values` changes, line 93).
MoveCursorOverFirstRender(rendered, key, pressed) ==
  ListInput(key, MapKeys(applyDecisions(status, <<>>).fullListing), pressed, "up", "down").value

\* the keypress listener of App, lines 218-223
MoveCursor(rendered, key, pressed) ==
  ListInput(key, MapKeys(rendered.fullListing), pressed, "up", "down").value

-----------------------------------------------------------------------------
(* Spec: the command, in report mode and in interactive mode.              *)

\* what a changed workspace has in its decision record, the baseline having
\* none: nothing, a bump, a decline as `yarn version decline` records it (the
\* target is the current version), or a record without a target
RecordKinds == {"none", "bump", "decline", "nonce"}

RecordOf(kind, version) ==
  CASE kind = "bump" -> NextVersion(JsString("2.0.0"), JsString("1"))
    [] kind = "decline" -> NextVersion(JsString(version), JsString("1"))
    [] kind = "nonce" -> NextVersion(JsUndefined, JsString("1"))
    [] OTHER -> NoNextVersion

TrackedBaseline == [exists |-> TRUE, manifest |-> PlainManifest]

\* the changed workspaces and their decision records: the changed files are
\* in A, in B or in both
ChangeSets ==
  {records \in [Workspaces -> RecordKinds \cup {"unchanged"}] : records["C"] = "unchanged"}

\* the dependencies between workspaces the projects of the command may have
CommandEdges == {<<"B", "A">>, <<"C", "A">>, <<"C", "B">>, <<"B", "C">>}

\* the dependency graphs of the command: the external package is there when
\* the tables lack it
CommandGraphs ==
  {g \in Graphs :
     IF g.tables = "complete" THEN g.edges \subseteq CommandEdges
     ELSE Cardinality(g.edges) = 1}

\* the shapes of the command: B is the workspace that may be private, without
\* a version or a prerelease
CommandShapes ==
  {shape \in Shapes :
     /\ shape["A"] = PlainManifest /\ shape["C"] = PlainManifest
     /\ shape["B"].private => shape["B"].version = "1.0.0"}

CommandProjects ==
  {MakeProject([w \in Workspaces |->
                  [shape[w] EXCEPT !.nextVersion = RecordOf(records[w], shape[w].version)]],
               [w \in Workspaces |-> TrackedBaseline], graph,
               InOrder({w \in Workspaces : records[w] # "unchanged"})) :
     shape \in CommandShapes, graph \in CommandGraphs, records \in ChangeSets}

Init ==
  /\ project \in CommandProjects
  /\ interactive \in BOOLEAN
  /\ pc = "start"
  /\ args = Idle
  /\ result = Idle
  /\ workspaces = <<>>
  /\ status = EmptyStatus
  /\ decisions = <<>>
  /\ activeKey = Undefined
  /\ listing = NoListing
  /\ returnedValue = NotReturned
  /\ applyIndex = 1
  /\ applied = <<>>
  /\ errorCount = 0
  /\ exitCode = Pending

\* project.resolveEverything({lockfileOnly: true, report: new ThrowReport()}),
\* lines 52-55 and 303-306: it throws unless the lockfile resolves every
\* dependency of every workspace
ResolvesEverything ==
  \A w \in Workspaces :
    \A i \in 1..Len(project.dependencies[w]) :
      LET resolution == StoredResolution(project.tables, project.dependencies[w][i])
      IN  resolution # Unregistered /\ HasStoredPackage(project.tables, resolution)

\* the exit code of the process for what `execute` resolved to: none is 0
ProcessExitCode(value) == IF value.t = "undefined" THEN 0 ELSE value.n

\* lines 52-55 and 303-306: the resolution throws
ResolutionFails ==
  /\ pc = "start"
  /\ ~ResolvesEverything
  /\ pc' = "failed"
  /\ exitCode' = JsNumber(1)
  /\ UNCHANGED <<project, args, result, interactive, workspaces, status, decisions,
                 activeKey, listing, returnedValue, applyIndex, applied, errorCount>>

\* fetchRoot and fetchBase, lines 463-464 and 491-492: no repository, or no
\* ancestor shared with a master branch; the UsageError ends the command
GitFails ==
  /\ pc = "start"
  /\ ResolvesEverything
  /\ pc' = "failed"
  /\ exitCode' = JsNumber(1)
  /\ UNCHANGED <<project, args, result, interactive, workspaces, status, decisions,
                 activeKey, listing, returnedValue, applyIndex, applied, errorCount>>

\* executeInteractive, lines 60-63: no changed file belongs to a workspace
NothingChanged ==
  /\ pc = "start"
  /\ interactive
  /\ ResolvesEverything
  /\ Len(project.changed) = 0
  /\ workspaces' = project.changed
  /\ pc' = "done"
  /\ exitCode' = JsUndefined
  /\ UNCHANGED <<project, args, result, interactive, status, decisions, activeKey, listing,
                 returnedValue, applyIndex, applied, errorCount>>

\* line 66-67: nothing is undecided and no dependent is outstanding
NothingOutstanding(st) ==
  /\ Len(st.undecided) = 0
  /\ Len(fetchUndecidedDependentWorkspaces(st.decided, st.declined, {}).pairs) = 0

\* executeInteractive, lines 65-68: every workspace has its decision
NothingToDecide ==
  /\ pc = "start"
  /\ interactive
  /\ ResolvesEverything
  /\ Len(project.changed) # 0
  /\ NothingOutstanding(fetchWorkspacesStatus(project.changed))
  /\ workspaces' = project.changed
  /\ status' = fetchWorkspacesStatus(project.changed)
  /\ pc' = "done"
  /\ exitCode' = JsUndefined
  /\ UNCHANGED <<project, args, result, interactive, decisions, activeKey, listing,
                 returnedValue, applyIndex, applied, errorCount>>

\* executeInteractive, lines 65-68 and 285, App, lines 203-215: the form is
\* rendered, with no decision and the cursor on the first key
OpenSession ==
  /\ pc = "start"
  /\ interactive
  /\ ResolvesEverything
  /\ Len(project.changed) # 0
  /\ ~NothingOutstanding(fetchWorkspacesStatus(project.changed))
  /\ workspaces' = project.changed
  /\ status' = fetchWorkspacesStatus(project.changed)
  /\ decisions' = <<>>
  /\ listing' = applyDecisions(status', decisions')
  /\ activeKey' = ElementAt(MapKeys(listing'.fullListing), 0)
  /\ pc' = "browsing"
  /\ UNCHANGED <<project, args, result, interactive, returnedValue, applyIndex,
                 applied, errorCount, exitCode>>

Keys == {"up", "down", "left", "right"}

\* a keypress other than `return`: the listener of App moves the cursor, the
\* listeners of the active rows cycle the decision, and App renders again
KeyPress ==
  /\ pc = "browsing"
  /\ \E key \in Keys :
       /\ activeKey' = MoveCursor(listing, activeKey, key)
       /\ decisions' = CycleRows(RenderedRows(listing, activeKey), decisions, key, 1,
                                 decisions)
  /\ listing' = applyDecisions(status, decisions')
  /\ UNCHANGED <<project, args, result, interactive, pc, workspaces, status,
                 returnedValue, applyIndex, applied, errorCount, exitCode>>

\* renderForm, lines 266-271 and 281-282: the `return` key captures the
\* decisions and ends the form; the App component is unmounted and its state
\* is gone
Confirm ==
  /\ pc = "browsing"
  /\ returnedValue' = [defined |-> TRUE, value |-> decisions]
  /\ pc' = "exited"
  /\ decisions' = <<>>
  /\ activeKey' = Undefined
  /\ listing' = NoListing
  /\ UNCHANGED <<project, args, result, interactive, workspaces, status, applyIndex,
                 applied, errorCount, exitCode>>

\* renderForm, lines 281-282: the form ends without the `return` key
\* (ctrl-c), nothing was captured
Abort ==
  /\ pc = "browsing"
  /\ pc' = "exited"
  /\ decisions' = <<>>
  /\ activeKey' = Undefined
  /\ listing' = NoListing
  /\ UNCHANGED <<project, args, result, interactive, workspaces, status,
                 returnedValue, applyIndex, applied, errorCount, exitCode>>

\* A variant of IsUndefined for a caller that does not look at what the form
\* gave.
IsUndefinedIgnored(value) == FALSE

\* line 286: typeof decisions === `undefined`
IsUndefined(value) == ~value.defined

\* executeInteractive, lines 286-287: the form gave nothing
ReturnAborted ==
  /\ pc = "exited"
  /\ IsUndefined(returnedValue)
  /\ pc' = "done"
  /\ exitCode' = JsNumber(1)
  /\ UNCHANGED <<project, args, result, interactive, workspaces, status, decisions,
                 activeKey, listing, returnedValue, applyIndex, applied, errorCount>>

\* the codes the runs of `this.cli.run` resolve to: 0, and 1 for the run that
\* fails, if one does
RunCodes(length) ==
  {[i \in 1..length |-> IF i = failing THEN 1 ELSE 0] : failing \in 0..length}

\* lines 289-293, from the i-th entry on: `version <decision> --deferred` is
\* run in the workspace of each entry and awaited before the next one; what
\* it resolves to (codes[i]) is dropped
RECURSIVE RunDecisions(_, _, _, _)
RunDecisions(entries, codes, i, runs) ==
  IF i > Len(entries) THEN runs
  ELSE IF entries[i][2] # "undecided"
    THEN RunDecisions(entries, codes, i + 1,
           Append(runs, [cwd |-> entries[i][1], decision |-> entries[i][2],
                         code |-> codes[i]]))
  ELSE RunDecisions(entries, codes, i + 1, runs)

\* executeInteractive, lines 286-294: the decisions are applied and the
\* function returns nothing
ApplyAll ==
  /\ pc = "exited"
  /\ ~IsUndefined(returnedValue)
  /\ \E codes \in RunCodes(Len(returnedValue.value)) :
       applied' = RunDecisions(returnedValue.value, codes, 1, <<>>)
  /\ applyIndex' = Len(returnedValue.value) + 1
  /\ pc' = "done"
  /\ exitCode' = JsUndefined
  /\ UNCHANGED <<project, args, result, interactive, workspaces, status, decisions,
                 activeKey, listing, returnedValue, errorCount>>

\* StreamReport.exitCode(): 1 once an error was reported
ReportExitCode(errors) == IF errors > 0 THEN 1 ELSE 0

\* A variant of ReportedErrors without the loop of lines 344-350.
ReportedErrorsOfChanged(st) == Len(st.undecided)

\* executeStandard, lines 330-351: one reportError for each undecided
\* workspace and one for each pair
ReportedErrors(st) ==
  Len(st.undecided) + Len(fetchUndecidedDependentWorkspaces(st.decided, st.declined, {}).pairs)

\* executeStandard, lines 308-361
StandardReport ==
  /\ pc = "start"
  /\ ~interactive
  /\ ResolvesEverything
  /\ workspaces' = project.changed
  /\ status' = fetchWorkspacesStatus(project.changed)
  /\ errorCount' = ReportedErrors(status')
  /\ exitCode' = JsNumber(ReportExitCode(errorCount'))
  /\ pc' = "done"
  /\ UNCHANGED <<project, args, result, interactive, decisions, activeKey, listing,
                 returnedValue, applyIndex, applied>>

Next ==
  \/ ResolutionFails
  \/ GitFails
  \/ NothingChanged
  \/ NothingToDecide
  \/ OpenSession
  \/ KeyPress
  \/ Confirm
  \/ Abort
  \/ ReturnAborted
  \/ ApplyAll
  \/ StandardReport

Spec == Init /\ [][Next]_vars

-----------------------------------------------------------------------------
(* Properties of the command, under Spec.                                  *)

\* the form was rendered: some workspace changed and something was
\* outstanding (lines 62-68)
SessionOpened == interactive /\ Len(workspaces) # 0 /\ ~NothingOutstanding(status)

\* the form ended with the `return` key and the command has returned
Confirmed == pc = "done" /\ returnedValue.defined

\* the form ended without the `return` key and the command has returned
Aborted == pc = "done" /\ SessionOpened /\ ~returnedValue.defined

\* workspace w has a dependency that resolves to workspace d
DependsOn(w, d) ==
  \E i \in 1..Len(project.dependencies[w]) :
    StoredResolution(project.tables, project.dependencies[w][i]) = LocatorHash(d)

\* C5: no apply action is invoked unless the session was confirmed; a
\* session that ends without the confirm key has invoked none and the
\* command returns 1.
C5_NoApplyWithoutConfirm ==
  /\ applied # <<>> => Confirmed
  /\ Aborted => applied = <<>> /\ exitCode = JsNumber(1)

\* an aborted session
C5_Witness == Aborted /\ applied = <<>> /\ ProcessExitCode(exitCode) = 1

AppliedWorkspaces == [i \in 1..Len(applied) |-> applied[i].cwd]

\* the elements of list are in order, and come in the order they have there
FollowsOrder(list, order) ==
  \A i, j \in 1..Len(list) :
    i < j => /\ Includes(order, list[i]) /\ Includes(order, list[j])
             /\ IndexOf(order, list[i]) < IndexOf(order, list[j])

\* the workspaces of the rows of a render, top to bottom
RowWorkspaces(rendered) == rendered.undecidedWorkspaces \o rendered.undecidedDependents

\* C6, as stated: after confirm the apply actions run in declaration order:
\* the order of the workspaces of the project, or that of the rows of the
\* first render, or that of the rows of the last render.
C6_AppliesInDeclarationOrder ==
  Confirmed =>
    \/ FollowsOrder(AppliedWorkspaces, WorkspaceOrder)
    \/ FollowsOrder(AppliedWorkspaces, RowWorkspaces(applyDecisions(status, <<>>)))
    \/ FollowsOrder(AppliedWorkspaces, RowWorkspaces(applyDecisions(status, returnedValue.value)))

\* the keys that stay in the map keep their relative order and a key that
\* enters the map goes last
InsertionStep ==
  LET old == MapKeys(decisions)
      new == MapKeys(decisions')
  IN  /\ \A i, j \in 1..Len(new) :
           (i < j /\ Includes(old, new[i]) /\ Includes(old, new[j]))
             => IndexOf(old, new[i]) < IndexOf(old, new[j])
      /\ \A i \in 1..Len(new) : ~Includes(old, new[i]) => i = Len(new)

\* C6, amended: after confirm the apply actions run one for each entry of
\* the DecisionMap in the insertion order of its keys: a workspace that
\* enters the map goes last, changing its decision keeps its place, and
\* removing and re-entering it moves it to the end.
C6_AppliesInInsertionOrder ==
  /\ [](Confirmed =>
          /\ Len(applied) = Len(returnedValue.value)
          /\ \A i \in 1..Len(applied) :
               /\ applied[i].cwd = returnedValue.value[i][1]
               /\ applied[i].decision = returnedValue.value[i][2])
  /\ [][(pc = "browsing" /\ pc' = "browsing") => InsertionStep]_vars

\* two applies ran against the order of the workspaces of the project
C6_Witness ==
  /\ Confirmed
  /\ Len(applied) = 2
  /\ IndexOf(WorkspaceOrder, applied[1].cwd) > IndexOf(WorkspaceOrder, applied[2].cwd)

\* C7, as stated: after a confirmed session the command exits with the code
\* of the last apply action, and with 1 after an aborted one.
C7_ExitCodeOfLastApply ==
  /\ (Confirmed /\ applied # <<>>) =>
       ProcessExitCode(exitCode) = applied[Len(applied)].code
  /\ Aborted => ProcessExitCode(exitCode) = 1

\* no entry of the map holds `undecided`
NoUndecidedEntry(map) == \A i \in 1..Len(map) : map[i][2] # "undecided"

\* at most the workspace of the active row changes its decision, to one of
\* its strategies
CyclingStep ==
  LET changed == {w \in Workspaces : DecisionOf(decisions', w) # DecisionOf(decisions, w)}
  IN  /\ Cardinality(changed) <= 1
      /\ \A w \in changed :
           /\ w = ActiveWorkspace(listing, activeKey)
           /\ Includes(Strategies(project.manifest[w].version), DecisionOf(decisions', w))
           /\ MapHas(decisions', w) <=> DecisionOf(decisions', w) # "undecided"

\* C8: after any sequence of arrow keys the DecisionMap has no entry whose
\* value is `undecided` (nor has the map that confirm hands over); a key
\* event changes at most the decision of the active row: cycling to
\* `undecided` removes its key, every other result is stored as its value,
\* and the other entries stay as they are.
C8_NoUndecidedEntry ==
  /\ [](NoUndecidedEntry(decisions) /\ NoUndecidedEntry(returnedValue.value))
  /\ [][(pc = "browsing" /\ pc' = "browsing") => CyclingStep]_vars

\* two rows have their entries and a third row, cycled or not, has none
C8_Witness ==
  /\ pc = "browsing"
  /\ Len(decisions) = 2
  /\ \E i \in 1..Len(RowWorkspaces(listing)) : ~MapHas(decisions, RowWorkspaces(listing)[i])

\* the workspaces that are declined and not decided
DeclinedOnly(decidedList, declinedList) ==
  {a \in Workspaces : Includes(declinedList, a) /\ ~Includes(decidedList, a)}

\* the lists applyDecisions hands to fetchUndecidedDependentWorkspaces
DecidedNow == WithDecisions(status.decided, decisions, TRUE, 1)
DeclinedNow == WithDecisions(status.declined, decisions, FALSE, 1)

\* C9: no emitted pair has a dependency that is declined and not decided,
\* and every surfaced dependent depends on a decided workspace: in report
\* mode for the buckets of the status (the errors counted are the undecided
\* workspaces and those pairs), and in the session for the buckets extended
\* with the decisions of the human.
C9_DeclinedNotPropagated ==
  /\ (pc = "done" /\ ~interactive) =>
       LET pairs == Emitted(fetchUndecidedDependentWorkspaces(status.decided,
                                                              status.declined, {}))
       IN  /\ \A p \in pairs :
                /\ p[2] \notin DeclinedOnly(status.decided, status.declined)
                /\ DependsOn(p[1], p[2]) /\ Includes(status.decided, p[2])
           /\ errorCount = Len(status.undecided) + Cardinality(pairs)
  /\ pc = "browsing" =>
       LET pairs == Emitted(fetchUndecidedDependentWorkspaces(DecidedNow, DeclinedNow,
                              {decisions[i][1] : i \in 1..Len(decisions)}))
       IN  /\ \A p \in pairs : p[2] \notin DeclinedOnly(DecidedNow, DeclinedNow)
           /\ \A i \in 1..Len(listing.undecidedDependents) :
                \E d \in Workspaces :
                  /\ DependsOn(listing.undecidedDependents[i], d)
                  /\ Includes(DecidedNow, d)

\* the human has set A to `decline`, and a public versioned workspace that
\* depends on A and has no decision is not a row
C9_Witness ==
  /\ pc = "browsing"
  /\ \E a, b \in Workspaces :
       /\ DecisionOf(decisions, a) = "decline"
       /\ DependsOn(b, a)
       /\ ~project.manifest[b].private /\ project.manifest[b].version # NoVersion
       /\ ~MapHas(decisions, b)
       /\ ~Includes(status.decided, b) /\ ~Includes(status.declined, b)
       /\ ~Includes(RowWorkspaces(listing), b)

\* C10: a report run that completes exits non-zero exactly when a workspace
\* is undecided or fetchUndecidedDependentWorkspaces, with an empty include
\* set, emits a pair; it invokes no apply action; with A decided and a
\* public versioned B that depends on A and is neither decided nor declined
\* it exits non-zero.
C10_ReportExitCode ==
  /\ ~interactive => applied = <<>>
  /\ (pc = "done" /\ ~interactive) =>
       /\ ProcessExitCode(exitCode) # 0 <=>
            \/ Len(status.undecided) > 0
            \/ Len(fetchUndecidedDependentWorkspaces(status.decided, status.declined,
                                                     {}).pairs) > 0
       /\ ProcessExitCode(exitCode) \in {0, 1}
       /\ \A a, b \in Workspaces :
            ( /\ Includes(status.decided, a) /\ DependsOn(b, a)
              /\ ~project.manifest[b].private /\ project.manifest[b].version # NoVersion
              /\ ~Includes(status.decided, b) /\ ~Includes(status.declined, b) )
            => ProcessExitCode(exitCode) # 0

\* no workspace is undecided and the report exits non-zero for a dependent
\* of a decided workspace
C10_Witness ==
  /\ pc = "done" /\ ~interactive
  /\ Len(status.undecided) = 0
  /\ ProcessExitCode(exitCode) = 1
  /\ \E a, b \in Workspaces : Includes(status.decided, a) /\ DependsOn(b, a)

\* the entry after and the entry before a value of a list, the list taken as
\* a ring
NextOf(values, value) ==
  LET i == CHOOSE k \in 1..Len(values) : values[k] = value
  IN  IF i = Len(values) THEN values[1] ELSE values[i + 1]

PreviousOf(values, value) ==
  LET i == CHOOSE k \in 1..Len(values) : values[k] = value
  IN  IF i = 1 THEN values[Len(values)] ELSE values[i - 1]

\* the map the rows of the render hand to setDecisions for a key
CycledTo(key) == CycleRows(RenderedRows(listing, activeKey), decisions, key, 1, decisions)

\* the map the rows hand to setDecisions for `right` in the render that
\* follows a `left`
LeftThenRight ==
  LET afterLeft == CycledTo("left")
  IN  CycleRows(RenderedRows(applyDecisions(status, afterLeft), activeKey), afterLeft,
                "right", 1, afterLeft)

\* C11: the strategy list of a row is [undecided, decline, prerelease,
\* major] for a prerelease version and [undecided, decline, patch, minor,
\* major, prerelease] otherwise; on the focused row `right` gives the next
\* entry and `left` the previous one, both wrapping, so that left then right
\* gives the decision back; the decisions of the other workspaces stay.
C11_StrategiesCycle ==
  pc = "browsing" =>
    /\ \A i \in 1..Len(RowWorkspaces(listing)) :
         LET version == project.manifest[RowWorkspaces(listing)[i]].version
         IN  Strategies(version) =
               IF version = PrereleaseVersion
               THEN <<"undecided", "decline", "prerelease", "major">>
               ELSE <<"undecided", "decline", "patch", "minor", "major", "prerelease">>
    /\ LET w == ActiveWorkspace(listing, activeKey)
           list == Strategies(project.manifest[w].version)
           decision == DecisionOf(decisions, w)
       IN  /\ w \in Workspaces
           /\ DecisionOf(CycledTo("right"), w) = NextOf(list, decision)
           /\ DecisionOf(CycledTo("left"), w) = PreviousOf(list, decision)
           /\ DecisionOf(LeftThenRight, w) = decision
           /\ \A x \in Workspaces \ {w} : \A key \in Keys :
                DecisionOf(CycledTo(key), x) = DecisionOf(decisions, x)

\* the focused row is that of a prerelease and holds the last entry of its
\* list, from which `right` wraps, while another row has a decision
C11_Witness ==
  /\ pc = "browsing"
  /\ LET w == ActiveWorkspace(listing, activeKey)
     IN  /\ w \in Workspaces
         /\ project.manifest[w].version = PrereleaseVersion
         /\ DecisionOf(decisions, w) = "major"
         /\ \E x \in Workspaces \ {w} : MapHas(decisions, x)

\* the pairs of a call read off the graph: a direct dependency of an
\* examined public versioned workspace on a decided workspace
DirectPairs(decidedList, declinedList, include) ==
  {p \in Workspaces \X Workspaces :
     /\ DependsOn(p[1], p[2])
     /\ Includes(decidedList, p[2])
     /\ ~project.manifest[p[1]].private
     /\ project.manifest[p[1]].version # NoVersion
     /\ \/ p[1] \in include
        \/ ~Includes(decidedList, p[1]) /\ ~Includes(declinedList, p[1])}

\* C12: a call that returns emits (W, D) exactly when W is public,
\* versioned, examined (in the include set, or neither decided nor
\* declined) and has a direct dependency that resolves to a decided
\* workspace D; a workspace with no direct dependency on a decided
\* workspace is the dependent of no pair.
C12_SingleHop ==
  (Propagated /\ result.error = NoError) =>
    /\ Emitted(result) = DirectPairs(args.decided, args.declined, args.include)
    /\ \A w \in Workspaces :
         (\A d \in Workspaces : DependsOn(w, d) => ~Includes(args.decided, d))
           => \A p \in Emitted(result) : p[1] # w

\* a chain: w depends on an undecided v that depends on a decided d; the
\* pair of v is emitted and w is the dependent of no pair
C12_Witness ==
  /\ Propagated /\ result.error = NoError
  /\ \E w, v, d \in Workspaces :
       /\ DependsOn(w, v) /\ DependsOn(v, d) /\ ~DependsOn(w, d)
       /\ Includes(args.decided, d)
       /\ ~Includes(args.decided, v) /\ ~Includes(args.declined, v)
       /\ ~Includes(args.decided, w) /\ ~Includes(args.declined, w)
       /\ ~project.manifest[w].private /\ project.manifest[w].version # NoVersion
       /\ <<v, d>> \in Emitted(result)
       /\ \A p \in Emitted(result) : p[1] # w

-----------------------------------------------------------------------------
(* SpecApply: the loop of lines 289-293 run by run. `returnedValue` is the *)
(* map the form gave, `applyIndex` the entry the loop is at, `result` the  *)
(* runs of `this.cli.run` that were started and have not returned, and     *)
(* `applied` the runs that have returned.                                  *)

\* the maps a session can hand over: a decision other than `undecided` for
\* some of the workspaces, in any order of insertion
ConfirmedMaps ==
  UNION {{map \in [1..n -> Workspaces \X {"decline", "patch", "minor", "major", "prerelease"}] :
            \A i, j \in 1..n : i # j => map[i][1] # map[j][1]} :
         n \in 0..Cardinality(Workspaces)}

InitApply ==
  /\ project = MakeProject([w \in Workspaces |-> PlainManifest],
                           [w \in Workspaces |-> TrackedBaseline],
                           [edges |-> {}, tables |-> "complete"], WorkspaceOrder)
  /\ \E map \in ConfirmedMaps : returnedValue = [defined |-> TRUE, value |-> map]
  /\ args = Idle
  /\ result = <<>>
  /\ interactive = TRUE
  /\ pc = "applying"
  /\ workspaces = WorkspaceOrder
  /\ status = [decided |-> <<>>, undecided |-> WorkspaceOrder, declined |-> <<>>]
  /\ decisions = <<>>
  /\ activeKey = Undefined
  /\ listing = NoListing
  /\ applyIndex = 1
  /\ applied = <<>>
  /\ errorCount = 0
  /\ exitCode = Pending

\* A variant of Awaited for a loop that calls `this.cli.run` without `await`.
NotAwaited == TRUE

\* line 291, `await`: the loop goes on once the run it started has returned
Awaited == Len(result) = 0

\* lines 289-291: the loop takes the next entry and, unless its decision is
\* `undecided`, starts `version <decision> --deferred` in its workspace
StartRun ==
  /\ pc = "applying"
  /\ Awaited
  /\ applyIndex <= Len(returnedValue.value)
  /\ LET entry == returnedValue.value[applyIndex]
     IN  result' = IF entry[2] # "undecided"
                   THEN Append(result, [cwd |-> entry[1], decision |-> entry[2]])
                   ELSE result
  /\ applyIndex' = applyIndex + 1
  /\ UNCHANGED <<project, args, interactive, pc, workspaces, status, decisions, activeKey,
                 listing, returnedValue, applied, errorCount, exitCode>>

\* a run that was started returns, with its exit code
RunReturns ==
  /\ pc = "applying"
  /\ \E i \in 1..Len(result), code \in {0, 1} :
       /\ applied' = Append(applied, [cwd |-> result[i].cwd, decision |-> result[i].decision,
                                      code |-> code])
       /\ result' = [j \in 1..(Len(result) - 1) |-> IF j < i THEN result[j] ELSE result[j + 1]]
  /\ UNCHANGED <<project, args, interactive, pc, workspaces, status, decisions, activeKey,
                 listing, returnedValue, applyIndex, errorCount, exitCode>>

\* lines 293-294: the entries are exhausted and the function returns nothing
FinishApply ==
  /\ pc = "applying"
  /\ Awaited
  /\ applyIndex > Len(returnedValue.value)
  /\ pc' = "done"
  /\ exitCode' = JsUndefined
  /\ UNCHANGED <<project, args, result, interactive, workspaces, status, decisions,
                 activeKey, listing, returnedValue, applyIndex, applied, errorCount>>

NextApply ==
  \/ StartRun
  \/ RunReturns
  \/ FinishApply

SpecApply == InitApply /\ [][NextApply]_vars

\* the runs started so far, those that returned first
StartedRuns ==
  [i \in 1..Len(applied) |-> <<applied[i].cwd, applied[i].decision>>]
    \o [i \in 1..Len(result) |-> <<result[i].cwd, result[i].decision>>]

\* C13: the loop starts one apply action for each entry of the map the form
\* gave, in the order of the entries and with the entry's strategy; at most
\* one run is in flight, and it is the last one started; when the command
\* returns every entry has had exactly one run, all have returned, and no
\* workspace without an entry has had one.
C13_OneApplyPerEntry ==
  pc \in {"applying", "done"} =>
    /\ Len(result) <= 1
    /\ StartedRuns = SubSeq(returnedValue.value, 1, applyIndex - 1)
    /\ pc = "done" =>
         /\ Len(result) = 0
         /\ Len(applied) = Len(returnedValue.value)
         /\ \A i \in 1..Len(applied) :
              /\ applied[i].cwd = returnedValue.value[i][1]
              /\ applied[i].decision = returnedValue.value[i][2]
         /\ \A w \in Workspaces :
              Occurrences(AppliedWorkspaces, w) = IF MapHas(returnedValue.value, w) THEN 1 ELSE 0

\* the second of three runs is in flight, the first has returned
C13_Witness ==
  /\ pc = "applying"
  /\ Len(returnedValue.value) = 3
  /\ Len(applied) = 1 /\ Len(result) = 1
  /\ applyIndex = 3

-----------------------------------------------------------------------------
(* Properties of the rows of the session, under Spec.                      *)

\* a step of the session from one render to the next
SessionStep == pc = "browsing" /\ pc' = "browsing"

\* the workspaces whose decision the step changes
ChangedDecisions ==
  {w \in Workspaces : DecisionOf(decisions', w) # DecisionOf(decisions, w)}

\* the keys of a render under which a workspace is displayed
KeysOf(rendered, w) ==
  {rendered.fullListing[i][1] : i \in {j \in 1..Len(rendered.fullListing) :
                                         rendered.fullListing[j][2] = w}}

\* C14: when a key event changes the decision of a displayed row, to any
\* strategy or back to `undecided`, every row of that workspace is still in
\* the row list of the next render.
C14_ChangedRowStays ==
  [][SessionStep =>
       \A w \in ChangedDecisions :
         /\ KeysOf(listing, w) # {}
         /\ KeysOf(listing, w) \subseteq KeysOf(listing', w)]_vars

\* a row of the dependents holds `decline`, which would have it skipped were
\* it not in the include set
C14_Witness ==
  /\ pc = "browsing"
  /\ \E i \in 1..Len(listing.undecidedDependents) :
       DecisionOf(decisions, listing.undecidedDependents[i]) = "decline"

Bumps == {"patch", "minor", "major", "prerelease"}

\* a public versioned workspace that the status has neither decided nor
\* declined
MaySurface(x) ==
  /\ ~project.manifest[x].private
  /\ project.manifest[x].version # NoVersion
  /\ ~Includes(status.decided, x) /\ ~Includes(status.declined, x)

\* C15: in every render, each public versioned workspace that has a direct
\* dependency on a workspace the human has set to a bump, and that the
\* status has neither decided nor declined, is a row of the dependents; so
\* a workspace two hops from a bump is a row once the workspace between
\* them has a bump decision.
C15_DependentsOfBumpsAreRows ==
  pc = "browsing" =>
    \A w, x \in Workspaces :
      (DecisionOf(decisions, w) \in Bumps /\ DependsOn(x, w) /\ MaySurface(x))
        => Includes(listing.undecidedDependents, x)

\* x is a row only because the human has bumped v, itself a row only because
\* the human has bumped w
C15_Witness ==
  /\ pc = "browsing"
  /\ \E w, v, x \in Workspaces :
       /\ DependsOn(x, v) /\ DependsOn(v, w) /\ ~DependsOn(x, w)
       /\ DecisionOf(decisions, w) \in Bumps /\ DecisionOf(decisions, v) \in Bumps
       /\ status.decided = <<>>
       /\ ~Includes(status.undecided, v) /\ ~Includes(status.undecided, x)
       /\ Includes(listing.undecidedDependents, v)
       /\ Includes(listing.undecidedDependents, x)

\* C16, as stated: the row list of a render holds each workspace at most
\* once, also a workspace that is undecided in the status and the dependent
\* of a pair.
C16_RowsAreDistinct ==
  pc = "browsing" =>
    \A w \in Workspaces : Occurrences(RowWorkspaces(listing), w) <= 1

\* the keys of the rows of a render, top to bottom
RowKeys(rendered) == MapKeys(rendered.fullListing)

\* the step brings a row that the render before did not have
SurfacesRows ==
  \E i \in 1..Len(RowKeys(listing')) : ~Includes(RowKeys(listing), RowKeys(listing')[i])

\* no workspace has two rows, before or after the step
SingleRows ==
  /\ \A w \in Workspaces : Occurrences(RowWorkspaces(listing), w) <= 1
  /\ \A w \in Workspaces : Occurrences(RowWorkspaces(listing'), w) <= 1

\* C17, as stated: when a step surfaces new rows, the rows already displayed
\* keep their positions and every new row comes after all of them; taken
\* here for the steps in which no workspace has two rows.
C17_NewRowsAreAppended ==
  [][(SessionStep /\ SurfacesRows /\ SingleRows) =>
       LET old == RowKeys(listing)
           new == RowKeys(listing')
       IN  /\ \A i \in 1..Len(old) : Includes(new, old[i]) => IndexOf(new, old[i]) = i
           /\ \A j \in 1..Len(new) :
                ~Includes(old, new[j]) =>
                  \A i \in 1..Len(new) : Includes(old, new[i]) => i < j]_vars

\* C17, amended: the row list is the undecided workspaces of the status, in
\* their order, followed by the dependents in the order of the workspaces of
\* the project; a step keeps the relative order of the rows that stay and
\* the positions of the rows of the undecided workspaces, and puts a new row
\* among the dependents at its place in the order of the project, so after
\* the undecided workspaces and possibly before dependents already there.
C17_NewRowsInProjectOrder ==
  /\ [](pc = "browsing" =>
          /\ listing.undecidedWorkspaces = status.undecided
          /\ FollowsOrder(listing.undecidedDependents, WorkspaceOrder)
          /\ RowKeys(listing) =
               [i \in 1..Len(RowWorkspaces(listing)) |->
                  IF i <= Len(listing.undecidedWorkspaces)
                  THEN UndecidedWorkspaceKey(RowWorkspaces(listing)[i])
                  ELSE UndecidedDependentKey(RowWorkspaces(listing)[i])])
  /\ [][SessionStep =>
          LET old == RowKeys(listing)
              new == RowKeys(listing')
          IN  /\ \A i, j \in 1..Len(old) :
                   (i < j /\ Includes(new, old[i]) /\ Includes(new, old[j]))
                     => IndexOf(new, old[i]) < IndexOf(new, old[j])
              /\ \A i \in 1..Len(listing.undecidedWorkspaces) : new[i] = old[i]
              /\ \A j \in 1..Len(new) :
                   ~Includes(old, new[j]) => j > Len(listing.undecidedWorkspaces)]_vars

\* x is a dependent row above the dependent row v, and is a row only
\* because the human has bumped v: it came after v and went before it
C17_Witness ==
  /\ pc = "browsing"
  /\ \E x, v \in Workspaces :
       /\ Includes(listing.undecidedDependents, x) /\ Includes(listing.undecidedDependents, v)
       /\ IndexOf(listing.undecidedDependents, x) < IndexOf(listing.undecidedDependents, v)
       /\ ~Includes(status.undecided, v)
       /\ DecisionOf(decisions, v) \in Bumps
       /\ \A d \in Workspaces : DependsOn(x, d) => d = v

-----------------------------------------------------------------------------
(* The assertions of fetchUndecidedDependentWorkspaces, under              *)
(* SpecPropagate.                                                          *)

\* the workspace has a dependency whose resolution, or the package of whose
\* resolution, the tables of the project lack
HasUnregisteredDependency(w) ==
  \E i \in 1..Len(project.dependencies[w]) :
    LET resolution == StoredResolution(project.tables, project.dependencies[w][i])
    IN  resolution = Unregistered \/ ~HasStoredPackage(project.tables, resolution)

\* the dependencies of the workspace are examined by the call
Examined(w) ==
  /\ ~project.manifest[w].private
  /\ project.manifest[w].version # NoVersion
  /\ \/ w \in args.include
     \/ ~Includes(args.decided, w) /\ ~Includes(args.declined, w)

\* C18: the call fails, with the assertion error of the table that lacks
\* the entry and with no pairs, exactly when an examined workspace has a
\* dependency whose resolution or package is not registered; such a
\* dependency of a workspace that is skipped raises nothing.
C18_UnregisteredIsFatal ==
  Propagated =>
    /\ result.error # NoError <=> \E w \in Workspaces : Examined(w) /\ HasUnregisteredDependency(w)
    /\ result.error # NoError =>
         /\ result.pairs = <<>>
         /\ result.error = IF project.tables = "unresolved" THEN ResolutionError
                           ELSE PackageError
         /\ project.tables # "complete"

\* the call fails at a workspace that comes after one whose pair had been
\* pushed: the pair is lost with the rest
C18_Witness ==
  /\ Propagated
  /\ result.error = PackageError
  /\ result.pairs = <<>>
  /\ DirectPairs(args.decided, args.declined, args.include) # {}

-----------------------------------------------------------------------------
(* The cursor of the session, under Spec.                                  *)

\* C19: the session starts with a row list that is not empty and with the
\* cursor on its first row; in every render the cursor key is a key of the
\* row list of that render, `down` takes it to the next key of that list and
\* `up` to the previous one, both wrapping; a step leaves the cursor where it
\* is or moves it by one row, and then changes no decision.
C19_CursorOnARow ==
  /\ [](pc = "browsing" =>
          /\ Len(RowKeys(listing)) > 0
          /\ Includes(RowKeys(listing), activeKey)
          /\ MoveCursor(listing, activeKey, "down") = NextOf(RowKeys(listing), activeKey)
          /\ MoveCursor(listing, activeKey, "up") = PreviousOf(RowKeys(listing), activeKey))
  /\ [][/\ (pc = "start" /\ pc' = "browsing") =>
             (Len(RowKeys(listing')) > 0 /\ activeKey' = RowKeys(listing')[1])
        /\ SessionStep =>
             /\ activeKey' \in {activeKey, NextOf(RowKeys(listing), activeKey),
                                PreviousOf(RowKeys(listing), activeKey)}
             /\ activeKey' # activeKey => decisions' = decisions]_vars

\* the cursor is on the last of three rows, the third having come with a
\* decision of the human
C19_Witness ==
  /\ pc = "browsing"
  /\ Len(RowKeys(listing)) = 3
  /\ Len(RowKeys(applyDecisions(status, <<>>))) = 2
  /\ activeKey = RowKeys(listing)[3]

\* the rows of the render that are rendered as active, by their position
ActiveRows ==
  {i \in 1..Len(RenderedRows(listing, activeKey)) : RenderedRows(listing, activeKey)[i].active}

\* C20, as stated: in every render exactly one row is rendered as active,
\* and so a `left` or `right` key is handled by exactly one row.
C20_OneActiveRow == pc = "browsing" => Cardinality(ActiveRows) = 1

-----------------------------------------------------------------------------
(* The workspaces of the DecisionMap, under Spec.                          *)

\* C21, as stated: in every render each workspace that has an entry in the
\* DecisionMap is a row, and after confirm an apply action has run only for
\* workspaces that were rows of the render in which the human confirmed.
C21_EntriesAreRows ==
  /\ pc = "browsing" =>
       \A i \in 1..Len(decisions) : Includes(RowWorkspaces(listing), decisions[i][1])
  /\ Confirmed =>
       \A i \in 1..Len(applied) :
         Includes(RowWorkspaces(applyDecisions(status, returnedValue.value)), applied[i].cwd)

\* the workspaces the status has decided or declined
Recorded == {w \in Workspaces : Includes(status.decided, w) \/ Includes(status.declined, w)}

\* C22: a workspace that the status has put in `decided` or `declined` is
\* never a row of the session and never has an entry in the DecisionMap,
\* and after confirm no apply action has run for it.
C22_RecordedAreNotRows ==
  /\ pc = "browsing" =>
       \A w \in Recorded :
         /\ ~Includes(RowWorkspaces(listing), w)
         /\ ~MapHas(decisions, w)
  /\ Confirmed =>
       \A w \in Recorded :
         /\ ~MapHas(returnedValue.value, w)
         /\ \A i \in 1..Len(applied) : applied[i].cwd # w

\* a public versioned workspace with a recorded decision depends on a
\* workspace the human has bumped, and is not a row
C22_Witness ==
  /\ pc = "browsing"
  /\ \E d \in Recorded, w \in Workspaces :
       /\ DependsOn(d, w)
       /\ DecisionOf(decisions, w) \in Bumps
       /\ ~project.manifest[d].private /\ project.manifest[d].version # NoVersion
       /\ ~Includes(RowWorkspaces(listing), d)

=============================================================================
